---- MODULE Spec2Model ----
(***************************************************************************)
(* The lexical scanner of lox.rs (src/src/scanner.rs), with its token     *)
(* model (src/src/tokens.rs) and diagnostics (src/src/errors.rs).         *)
(*                                                                         *)
(* One behaviour is one call of Scanner::new(source).scan_tokens().  The   *)
(* source text is a sequence of one-character strings; all characters are  *)
(* ASCII, so a character index is also a byte index.  A step is one        *)
(* iteration of one of the scanner's loops: the dispatch of scan_token,    *)
(* one iteration of the loop of scan_string, scan_number, scan_identifier  *)
(* or of the comment loop, or the match on scan_token's result in          *)
(* scan_tokens.  pc names the loop the scanner is in.                      *)
(***************************************************************************)
EXTENDS Integers, Sequences, FiniteSets, TLC

(***************************************************************************)
(* Bounds of the model: the lengths of the inputs that Init enumerates.    *)
(***************************************************************************)
MaxLen == 4

MaxNumLen == 5

MaxAffix == 1

MaxOpTail == 2

(***************************************************************************)
(* Characters.  Code gives the code point of a character, so that the      *)
(* range comparisons of is_digit and is_alpha are modelled as written.     *)
(* Printable lists the characters of codes 32 to 126 in order; the grave   *)
(* accent (96), which a TLA+ string cannot hold, is written "grave".       *)
(***************************************************************************)
Printable ==
 <<
    " ", "!", "\"", "#", "$", "%", "&", "'", "(", ")", "*", "+", ",", "-", ".", "/",
    "0", "1", "2", "3", "4", "5", "6", "7", "8", "9", ":", ";", "<", "=", ">", "?",
    "@", "A", "B", "C", "D", "E", "F", "G", "H", "I", "J", "K", "L", "M", "N", "O",
    "P", "Q", "R", "S", "T", "U", "V", "W", "X", "Y", "Z", "[", "\\", "]", "^", "_",
    "grave", "a", "b", "c", "d", "e", "f", "g", "h", "i", "j", "k", "l", "m", "n", "o",
    "p", "q", "r", "s", "t", "u", "v", "w", "x", "y", "z", "{", "|", "}", "~"
 >>

Control == ("\t" :> 9) @@ ("\n" :> 10) @@ ("\r" :> 13)

Chars == {Printable[i] : i \in DOMAIN Printable} \cup DOMAIN Control

Code == [c \in Chars |->
            IF c \in DOMAIN Control THEN Control[c]
            ELSE 31 + (CHOOSE i \in DOMAIN Printable : Printable[i] = c)]

is_digit(c) == Code[c] >= Code["0"] /\ Code[c] <= Code["9"]

\* One range from 'A' to 'z': it takes in the six characters between 'Z' and 'a'.
is_alpha_wide(c) == Code[c] >= Code["A"] /\ Code[c] <= Code["z"]

is_alpha(c) ==
    \/ Code[c] >= Code["a"] /\ Code[c] <= Code["z"]
    \/ Code[c] >= Code["A"] /\ Code[c] <= Code["Z"]
    \/ c = "_"

\* Letters and underscores only: a digit ends the run.
is_alpha_numeric_no_digit(c) == is_alpha(c)

is_alpha_numeric(c) == is_digit(c) \/ is_alpha(c)

to_digit(c) == Code[c] - Code["0"]

(***************************************************************************)
(* Token model.  A TokenType is a tag with the payload of the literal      *)
(* variants: text for Identifier and String, the value num/den for Number  *)
(* (den a power of ten; the f64 of the code is modelled by this exact      *)
(* decimal).  The variants without payload carry the empty payload.        *)
(***************************************************************************)
TT(tag) == [tag |-> tag, text |-> <<>>, num |-> 0, den |-> 1]

TIdentifier(s) == [tag |-> "Identifier", text |-> s, num |-> 0, den |-> 1]

TString(s) == [tag |-> "String", text |-> s, num |-> 0, den |-> 1]

TNumber(n) == [tag |-> "Number", text |-> <<>>, num |-> n.num, den |-> n.den]

Token_new(which, lexem, ln) == [which |-> which, lexem |-> lexem, line |-> ln]

KEYWORDS ==
    (<<"a", "n", "d">> :> TT("And")) @@
    (<<"c", "l", "a", "s", "s">> :> TT("Class")) @@
    (<<"e", "l", "s", "e">> :> TT("Else")) @@
    (<<"f", "a", "l", "s", "e">> :> TT("False")) @@
    (<<"f", "o", "r">> :> TT("For")) @@
    (<<"f", "u", "n">> :> TT("Fun")) @@
    (<<"i", "f">> :> TT("If")) @@
    (<<"n", "i", "l">> :> TT("Nil")) @@
    (<<"o", "r">> :> TT("Or")) @@
    (<<"p", "r", "i", "n", "t">> :> TT("Print")) @@
    (<<"r", "e", "t", "u", "r", "n">> :> TT("Return")) @@
    (<<"s", "u", "p", "e", "r">> :> TT("Super")) @@
    (<<"t", "h", "i", "s">> :> TT("This")) @@
    (<<"t", "r", "u", "e">> :> TT("True")) @@
    (<<"v", "a", "r">> :> TT("Var")) @@
    (<<"w", "h", "i", "l", "e">> :> TT("While"))

SingleChar ==
    ("(" :> "LeftParen") @@ (")" :> "RightParen") @@ ("{" :> "LeftBrace") @@
    ("}" :> "RightBrace") @@ ("," :> "Comma") @@ ("." :> "Dot") @@
    ("-" :> "Minus") @@ ("+" :> "Plus") @@ (";" :> "Semi") @@ ("*" :> "Star")

OneChar == ("!" :> "Bang") @@ ("=" :> "Equal") @@ ("<" :> "Less") @@ (">" :> "Greater")

TwoChar ==
    ("!" :> "BangEqual") @@ ("=" :> "EqualEqual") @@ ("<" :> "LessEqual") @@
    (">" :> "GreaterEqual")

Whitespace == {" ", "\t", "\r"}

(***************************************************************************)
(* Diagnostics.                                                            *)
(***************************************************************************)
NoError == [line |-> 0, context |-> "", msg |-> ""]

OwnError_new(ln, context, msg) == [line |-> ln, context |-> context, msg |-> msg]

NoRet == [kind |-> "None", has_more |-> FALSE, err |-> NoError]

Ok(has_more) == [kind |-> "Ok", has_more |-> has_more, err |-> NoError]

report_error(ln, context, msg) ==
    [kind |-> "Err", has_more |-> FALSE, err |-> OwnError_new(ln, context, msg)]

\* impl fmt::Display for OwnError: writeln! writes the text and then a newline.
OwnError_fmt(e) ==
    "[" \o ToString(e.line) \o "] Error " \o e.context \o ": " \o e.msg \o "\n"

(***************************************************************************)
(* The inputs of the tests of scanner.rs.                                  *)
(***************************************************************************)
Test_comments ==
    <<"/", "/", " ", "h", "e", "l", "l", "o", " ", "w", "o", "r", "l", "d">>

Test_empty_multilines ==
    <<"/", "/", " ", "h", "e", "l", "l", "o", " ", "w", "o", "r", "l", "d", "\n", "\n",
      " ", " ", " ", " ">>

Test_multines ==
    <<"\n", " ", " ", " ", " ", "{", "}", " ", "/", "/", " ", "i", "n", "l", "i", "n",
      "e", " ", "c", "o", "m", "m", "e", "n", "t", " ", "{", "}", "\n", " ", " ", " ",
      " ", "/", ";", "*", "\n">>

Test_string_terminated ==
    <<"\n", " ", " ", " ", " ", "\"", "t", "e", "r", "m", "i", "n", "a", "t", "e", "d",
      " ", "4", "2", " ", "s", "t", "r", "i", "n", "g", "\"", "\n">>

Test_string_unterminated ==
    <<"\n", " ", " ", " ", " ", "\"", "u", "n", "t", "e", "r", "m", "i", "n", "a", "t",
      "e", "d", " ", "4", "2", " ", "s", "t", "r", "i", "n", "g", "\n">>

Test_number_int ==
    <<"4", "2", "3", "2", "9", "8">>

Test_number_frac ==
    <<"4", "2", "3", "2", "9", "8", ".", "0">>

Test_number_dot ==
    <<"4", "2", "3", "2", "9", "8", ".">>

Test_number_spaces ==
    <<" ", "1", "2", ".", "3", "4", " ", " ">>

TestInputs ==
    {<<>>, Test_comments, Test_empty_multilines, Test_multines, Test_string_terminated,
     Test_string_unterminated, Test_number_int, Test_number_frac, Test_number_dot,
     Test_number_spaces}

(***************************************************************************)
(* The inputs of the model: every text of at most MaxLen characters over   *)
(* Alphabet, every text of at most MaxNumLen characters over NumAlphabet,  *)
(* every text of at most MaxLen characters over DiagAlphabet (characters   *)
(* next to the ranges of is_digit and is_alpha), every keyword between two *)
(* affixes of at most MaxAffix characters, every operator character        *)
(* followed by at most MaxOpTail characters, the inputs of the tests, and  *)
(* three texts: keywords and identifiers, blanks and comments, and the     *)
(* literal with two decimal points of section 8 of the specification.      *)
(***************************************************************************)
SeqsUpTo(S, n) == UNION {[1..k -> S] : k \in 0..n}

Alphabet == {"\"", "\n", "1", ".", "a", "=", "/", " ", "@"}

NumAlphabet == {"0", "4", "2", ".", " "}

DiagAlphabet == {"@", "[", ":", "#", "\n", "z"}

AffixChars == {"y", "1", "_", " "}

OpTailChars == {"=", "1", " "}

ShortInputs == SeqsUpTo(Alphabet, MaxLen)

NumberInputs == SeqsUpTo(NumAlphabet, MaxNumLen)

DiagInputs == SeqsUpTo(DiagAlphabet, MaxLen)

KeywordInputs ==
    {p \o k \o s : p \in SeqsUpTo(AffixChars, MaxAffix), k \in DOMAIN KEYWORDS,
                   s \in SeqsUpTo(AffixChars, MaxAffix)}

OperatorInputs ==
    {<<o>> \o t : o \in DOMAIN OneChar, t \in SeqsUpTo(OpTailChars, MaxOpTail)}

\* class classy and1 _if
Sample_identifiers ==
    <<"c", "l", "a", "s", "s", " ", "c", "l", "a", "s", "s", "y", " ", "a", "n", "d", "1",
      " ", "_", "i", "f">>

\* Blanks of every kind around two comments, the second one ended by the end of input.
Sample_blank ==
    <<" ", "\t", "\r", "\n", "/", "/", " ", "x", "\"", "/", "\n", "\t", "/", "/", "/">>

\* 1.2.3
Sample_two_dots == <<"1", ".", "2", ".", "3">>

Inputs ==
    ShortInputs \cup NumberInputs \cup DiagInputs \cup KeywordInputs \cup OperatorInputs
        \cup TestInputs \cup {Sample_identifiers, Sample_blank, Sample_two_dots}

(***************************************************************************)
(* The state of one Scanner (scanner.rs:32-39) and of scan_tokens.         *)
(*   source_iter  the number of characters the iterator has yielded: the   *)
(*                next character it yields is source[source_iter + 1]      *)
(*   start, current  0-based indices into source, as in the code           *)
(*   errors       the local vector of scan_tokens                          *)
(*   ret          the value scan_token returned to scan_tokens             *)
(*   number, fractional_power_of_ten  the locals of scan_number; the       *)
(*                weight 1/w is held as w, and None as 0                   *)
(*   result       what scan_tokens returned                                *)
(*   calls        the number of calls of scan_token made so far            *)
(***************************************************************************)
VARIABLES source, source_iter, start, current, line, tokens, errors, pc, ret,
          number, fractional_power_of_ten, result, calls

vars == <<source, source_iter, start, current, line, tokens, errors, pc, ret,
          number, fractional_power_of_ten, result, calls>>

NoChar == ""

NoNumber == [num |-> 0, den |-> 1]

NoResult == [kind |-> "None", tokens |-> <<>>, errors |-> <<>>]

Init ==
    /\ source \in Inputs
    /\ source_iter = 0
    /\ start = 0
    /\ current = 0
    /\ line = 1
    /\ tokens = <<>>
    /\ errors = <<>>
    /\ pc = "loop"
    /\ ret = NoRet
    /\ number = NoNumber
    /\ fractional_power_of_ten = 0
    /\ result = NoResult
    /\ calls = 0

(***************************************************************************)
(* The cursor.                                                             *)
(***************************************************************************)
\* advance as a peek: the character is returned and not consumed.
advance_stuck(src, it) ==
    IF it < Len(src)
    THEN [some |-> TRUE, ch |-> src[it + 1], i |-> it, iter |-> it]
    ELSE [some |-> FALSE, ch |-> NoChar, i |-> 0, iter |-> it]

advance(src, it) ==
    IF it < Len(src)
    THEN [some |-> TRUE, ch |-> src[it + 1], i |-> it, iter |-> it + 1]
    ELSE [some |-> FALSE, ch |-> NoChar, i |-> 0, iter |-> it]

peek(src, it) == IF it < Len(src) THEN src[it + 1] ELSE NoChar

peek_next(src, it) == IF it + 1 < Len(src) THEN src[it + 2] ELSE NoChar

matches(src, it, expected) == peek(src, it) # NoChar /\ peek(src, it) = expected

\* source.as_bytes()[lo..hi]
Slice(src, lo, hi) == SubSeq(src, lo + 1, hi)

\* The token is pushed at the front of the list.
add_token_front(toks, which, ln) == <<Token_new(which, <<>>, ln)>> \o toks

add_token(toks, which, ln) == Append(toks, Token_new(which, <<>>, ln))

(***************************************************************************)
(* scan_token: the advance and the dispatch on the character read.  Every  *)
(* arm but the three that enter a sub-scanner and the comment arm returns  *)
(* to scan_tokens in the same step.                                        *)
(***************************************************************************)
\* The part every arm shares: the call, the advance, start = current.
Dispatch(a) ==
    /\ pc = "loop"
    /\ a.some
    /\ calls' = calls + 1
    /\ source_iter' = a.iter
    /\ current' = a.i
    /\ start' = a.i

ScanExhausted ==
    LET a == advance(source, source_iter) IN
    /\ pc = "loop"
    /\ ~a.some
    /\ calls' = calls + 1
    /\ ret' = Ok(FALSE)
    /\ pc' = "returned"
    /\ UNCHANGED <<source, source_iter, start, current, line, tokens, errors,
                   number, fractional_power_of_ten, result>>

ScanSingleChar ==
    LET a == advance(source, source_iter) IN
    /\ Dispatch(a)
    /\ a.ch \in DOMAIN SingleChar
    /\ tokens' = add_token(tokens, TT(SingleChar[a.ch]), line)
    /\ ret' = Ok(TRUE)
    /\ pc' = "returned"
    /\ UNCHANGED <<source, line, errors, number, fractional_power_of_ten, result>>

OperatorType(c, followed) == IF followed THEN TT(TwoChar[c]) ELSE TT(OneChar[c])

ScanOperator ==
    LET a == advance(source, source_iter) IN
    /\ Dispatch(a)
    /\ a.ch \in DOMAIN OneChar
    /\ tokens' = add_token(tokens, OperatorType(a.ch, matches(source, a.iter, "=")), line)
    /\ ret' = Ok(TRUE)
    /\ pc' = "returned"
    /\ UNCHANGED <<source, line, errors, number, fractional_power_of_ten, result>>

ScanSlash ==
    LET a == advance(source, source_iter) IN
    /\ Dispatch(a)
    /\ a.ch = "/"
    /\ IF matches(source, a.iter, "/")
       THEN /\ pc' = "comment"
            /\ UNCHANGED <<tokens, ret>>
       ELSE /\ tokens' = add_token(tokens, TT("Slash"), line)
            /\ ret' = Ok(TRUE)
            /\ pc' = "returned"
    /\ UNCHANGED <<source, line, errors, number, fractional_power_of_ten, result>>

ScanWhitespace ==
    LET a == advance(source, source_iter) IN
    /\ Dispatch(a)
    /\ a.ch \in Whitespace
    /\ ret' = Ok(TRUE)
    /\ pc' = "returned"
    /\ UNCHANGED <<source, line, tokens, errors, number, fractional_power_of_ten, result>>

ScanQuote ==
    LET a == advance(source, source_iter) IN
    /\ Dispatch(a)
    /\ a.ch = "\""
    /\ pc' = "scan_string"
    /\ UNCHANGED <<source, line, tokens, errors, ret, number, fractional_power_of_ten,
                   result>>

ScanDigit ==
    LET a == advance(source, source_iter) IN
    /\ Dispatch(a)
    /\ is_digit(a.ch)
    /\ number' = [num |-> to_digit(a.ch), den |-> 1]
    /\ fractional_power_of_ten' = 0
    /\ pc' = "scan_number"
    /\ UNCHANGED <<source, line, tokens, errors, ret, result>>

ScanAlpha ==
    LET a == advance(source, source_iter) IN
    /\ Dispatch(a)
    /\ is_alpha(a.ch)
    /\ pc' = "scan_identifier"
    /\ UNCHANGED <<source, line, tokens, errors, ret, number, fractional_power_of_ten,
                   result>>

ScanNewline ==
    LET a == advance(source, source_iter) IN
    /\ Dispatch(a)
    /\ a.ch = "\n"
    /\ line' = line + 1
    /\ ret' = Ok(TRUE)
    /\ pc' = "returned"
    /\ UNCHANGED <<source, tokens, errors, number, fractional_power_of_ten, result>>

\* The characters one of the arms above takes.
Dispatched(c) ==
    \/ c \in DOMAIN SingleChar
    \/ c \in DOMAIN OneChar
    \/ c = "/"
    \/ c \in Whitespace
    \/ c = "\""
    \/ is_digit(c)
    \/ is_alpha(c)
    \/ c = "\n"

ScanUnexpected ==
    LET a == advance(source, source_iter) IN
    /\ Dispatch(a)
    /\ ~Dispatched(a.ch)
    /\ ret' = report_error(line, "parsing", "unexpected character '" \o a.ch \o "'")
    /\ pc' = "returned"
    /\ UNCHANGED <<source, line, tokens, errors, number, fractional_power_of_ten, result>>

(***************************************************************************)
(* scan_string: one step is one iteration of its loop.                     *)
(***************************************************************************)
\* The newlines of a string literal are not counted.
StringLine_same(c, ln) == ln

\* Every character of a string literal counts as a line.
StringLine_any(c, ln) == ln + 1

\* The line counter goes down on a newline.
StringLine_down(c, ln) == IF c = "\n" THEN ln - 1 ELSE ln

StringLine(c, ln) == IF c = "\n" THEN ln + 1 ELSE ln

\* The String token is stamped with the line of the opening quote, source[st + 1].
StringTokenLine_opening(src, st, ln) == 1 + Cardinality({i \in 1..st : src[i] = "\n"})

\* add_token stamps self.line, as it is after the closing quote is read.
StringTokenLine(src, st, ln) == ln

\* The slice starts at the opening quote.
StringSubstr_from_quote(src, st, cur) == Slice(src, st, cur)

StringSubstr(src, st, cur) == Slice(src, st + 1, cur)

StringStep ==
    LET c == peek(source, source_iter)
        a == advance(source, source_iter)
    IN
    /\ pc = "scan_string"
    /\ c # NoChar
    /\ line' = StringLine(c, line)
    /\ source_iter' = a.iter
    /\ current' = a.i
    /\ IF c = "\""
       THEN /\ tokens' = add_token(tokens, TString(StringSubstr(source, start, a.i)),
                                   StringTokenLine(source, start, line'))
            /\ ret' = Ok(TRUE)
            /\ pc' = "returned"
       ELSE UNCHANGED <<tokens, ret, pc>>
    /\ UNCHANGED <<source, start, errors, number, fractional_power_of_ten, result, calls>>

\* The line of the opening quote, source[st + 1].
UnterminatedLine_opening(src, st, ln) == 1 + Cardinality({i \in 1..st : src[i] = "\n"})

\* self.line, as the loop of scan_string left it.
UnterminatedLine(src, st, ln) == ln

\* The text read so far is emitted as a String token and the diagnostic is reported.
StringUnterminated_emits ==
    /\ pc = "scan_string"
    /\ peek(source, source_iter) = NoChar
    /\ tokens' = add_token(tokens, TString(Slice(source, start + 1, Len(source))), line)
    /\ ret' = report_error(line, "when reading a string", "unterminated string")
    /\ pc' = "returned"
    /\ UNCHANGED <<source, source_iter, start, current, line, errors, number,
                   fractional_power_of_ten, result, calls>>

StringUnterminated ==
    /\ pc = "scan_string"
    /\ peek(source, source_iter) = NoChar
    /\ ret' = report_error(UnterminatedLine(source, start, line), "when reading a string",
                           "unterminated string")
    /\ pc' = "returned"
    /\ UNCHANGED <<source, source_iter, start, current, line, tokens, errors, number,
                   fractional_power_of_ten, result, calls>>

(***************************************************************************)
(* scan_number: one step is one iteration of its loop.  The value is kept  *)
(* as the exact decimal num/den in lowest power-of-ten terms.              *)
(***************************************************************************)
RECURSIVE Decimal(_, _)
Decimal(n, d) == IF d > 1 /\ n % 10 = 0 THEN Decimal(n \div 10, d \div 10)
                 ELSE [num |-> n, den |-> d]

\* The digit is added to the accumulator, which is not multiplied by ten.
IntegerDigit_add(n, c_num) == Decimal(n.num + c_num * n.den, n.den)

\* number *= 10.0; number += c_num
IntegerDigit(n, c_num) == Decimal(n.num * 10 + c_num * n.den, n.den)

\* number += c_num * decimal, with decimal = 1/w
FractionDigit(n, c_num, w) == Decimal(n.num * (w \div n.den) + c_num, w)

\* The fractional mode is never seen as entered.
is_some_never(w) == FALSE

\* fractional_power_of_ten.is_some()
is_some(w) == w # 0

NumberDigit ==
    LET c == peek(source, source_iter)
        a == advance(source, source_iter)
    IN
    /\ pc = "scan_number"
    /\ c # NoChar
    /\ is_digit(c)
    /\ source_iter' = a.iter
    /\ current' = a.i
    /\ IF is_some(fractional_power_of_ten)
       THEN /\ number' = FractionDigit(number, to_digit(c), fractional_power_of_ten)
            /\ fractional_power_of_ten' = fractional_power_of_ten * 10
       ELSE /\ number' = IntegerDigit(number, to_digit(c))
            /\ UNCHANGED fractional_power_of_ten
    /\ UNCHANGED <<source, start, line, tokens, errors, pc, ret, result, calls>>

\* Any '.' is consumed, whatever follows it.
DotTaken_any(src, it) == peek(src, it) = "."

\* The '.' that scan_number consumes: the one a digit follows.
DotTaken(src, it) ==
    /\ peek(src, it) = "."
    /\ peek_next(src, it) # NoChar
    /\ is_digit(peek_next(src, it))

NumberDot ==
    LET a == advance(source, source_iter) IN
    /\ pc = "scan_number"
    /\ DotTaken(source, source_iter)
    /\ source_iter' = a.iter
    /\ current' = a.i
    /\ IF is_some(fractional_power_of_ten)
       THEN /\ ret' = report_error(line, "when parsing a number", "unexpected dot")
            /\ pc' = "returned"
            /\ number' = NoNumber
            /\ fractional_power_of_ten' = 0
       ELSE /\ fractional_power_of_ten' = 10
            /\ UNCHANGED <<number, ret, pc>>
    /\ UNCHANGED <<source, start, line, tokens, errors, result, calls>>

NumberEnd ==
    LET c == peek(source, source_iter) IN
    /\ pc = "scan_number"
    /\ IF c = NoChar THEN TRUE ELSE ~is_digit(c) /\ ~DotTaken(source, source_iter)
    /\ tokens' = add_token(tokens, TNumber(number), line)
    /\ ret' = Ok(TRUE)
    /\ pc' = "returned"
    /\ number' = NoNumber
    /\ fractional_power_of_ten' = 0
    /\ UNCHANGED <<source, source_iter, start, current, line, errors, result, calls>>

(***************************************************************************)
(* scan_identifier: one step is one iteration of its loop.                 *)
(***************************************************************************)
IdentifierStep ==
    LET c == peek(source, source_iter)
        a == advance(source, source_iter)
    IN
    /\ pc = "scan_identifier"
    /\ c # NoChar
    /\ is_alpha_numeric(c)
    /\ source_iter' = a.iter
    /\ current' = a.i
    /\ UNCHANGED <<source, start, line, tokens, errors, pc, ret, number,
                   fractional_power_of_ten, result, calls>>

IdentifierSubstr(src, st, cur) == Slice(src, st, cur + 1)

IdentifierType(substr) ==
    IF substr \in DOMAIN KEYWORDS THEN KEYWORDS[substr] ELSE TIdentifier(substr)

IdentifierEnd ==
    LET c == peek(source, source_iter) IN
    /\ pc = "scan_identifier"
    /\ IF c = NoChar THEN TRUE ELSE ~is_alpha_numeric(c)
    /\ tokens' = add_token(tokens, IdentifierType(IdentifierSubstr(source, start, current)),
                           line)
    /\ ret' = Ok(TRUE)
    /\ pc' = "returned"
    /\ UNCHANGED <<source, source_iter, start, current, line, errors, number,
                   fractional_power_of_ten, result, calls>>

(***************************************************************************)
(* The comment loop of scan_token.                                         *)
(***************************************************************************)
\* The comment runs to the end of the input, over the newlines.
CommentEnds_at_eof(c) == c = NoChar

\* The loop ends when peek is None or the newline, which it does not consume.
CommentEnds(c) == c \in {NoChar, "\n"}

CommentStep ==
    LET c == peek(source, source_iter)
        a == advance(source, source_iter)
    IN
    /\ pc = "comment"
    /\ ~CommentEnds(c)
    /\ source_iter' = a.iter
    /\ current' = a.i
    /\ UNCHANGED <<source, start, line, tokens, errors, pc, ret, number,
                   fractional_power_of_ten, result, calls>>

CommentEnd ==
    LET c == peek(source, source_iter) IN
    /\ pc = "comment"
    /\ CommentEnds(c)
    /\ ret' = Ok(TRUE)
    /\ pc' = "returned"
    /\ UNCHANGED <<source, source_iter, start, current, line, tokens, errors, number,
                   fractional_power_of_ten, result, calls>>

(***************************************************************************)
(* scan_tokens: the match on what scan_token returned, and the end of the  *)
(* pass.                                                                   *)
(***************************************************************************)
Continue ==
    /\ pc = "returned"
    /\ ret.kind = "Ok"
    /\ ret.has_more
    /\ ret' = NoRet
    /\ pc' = "loop"
    /\ UNCHANGED <<source, source_iter, start, current, line, tokens, errors, number,
                   fractional_power_of_ten, result, calls>>

Collect(errs, err) == Append(errs, err)

CollectError ==
    /\ pc = "returned"
    /\ ret.kind = "Err"
    /\ errors' = Collect(errors, ret.err)
    /\ ret' = NoRet
    /\ pc' = "loop"
    /\ UNCHANGED <<source, source_iter, start, current, line, tokens, number,
                   fractional_power_of_ten, result, calls>>

\* The pass reports its first diagnostic only.
ScanResult_first(toks, errs) ==
    IF Len(errs) = 0
    THEN [kind |-> "Ok", tokens |-> toks, errors |-> <<>>]
    ELSE [kind |-> "Err", tokens |-> <<>>, errors |-> <<errs[1]>>]

ScanResult(toks, errs) ==
    IF Len(errs) = 0
    THEN [kind |-> "Ok", tokens |-> toks, errors |-> <<>>]
    ELSE [kind |-> "Err", tokens |-> <<>>, errors |-> errs]

Finish ==
    /\ pc = "returned"
    /\ ret.kind = "Ok"
    /\ ~ret.has_more
    /\ tokens' = Append(tokens, Token_new(TT("EOF"), <<>>, line))
    /\ result' = ScanResult(tokens', errors)
    /\ ret' = NoRet
    /\ pc' = "done"
    /\ UNCHANGED <<source, source_iter, start, current, line, errors, number,
                   fractional_power_of_ten, calls>>

Next ==
    \/ ScanExhausted
    \/ ScanSingleChar
    \/ ScanOperator
    \/ ScanSlash
    \/ ScanWhitespace
    \/ ScanQuote
    \/ ScanDigit
    \/ ScanAlpha
    \/ ScanNewline
    \/ ScanUnexpected
    \/ StringStep
    \/ StringUnterminated
    \/ NumberDigit
    \/ NumberDot
    \/ NumberEnd
    \/ IdentifierStep
    \/ IdentifierEnd
    \/ CommentStep
    \/ CommentEnd
    \/ Continue
    \/ CollectError
    \/ Finish

Spec == Init /\ [][Next]_vars

\* scan_tokens is one sequential loop: a step that is possible is taken.
FairSpec == Spec /\ WF_vars(Next)

(***************************************************************************)
(* Definitions the properties share.                                       *)
(***************************************************************************)
Last(s) == s[Len(s)]

Count(s, c) == Cardinality({i \in DOMAIN s : s[i] = c})

Tags(toks) == [i \in DOMAIN toks |-> toks[i].which.tag]

Done == pc = "done"

(***************************************************************************)
(* C1: scan_tokens terminates on every input: a call of scan_token on      *)
(* input that is not exhausted consumes at least one character, the cursor *)
(* never moves backwards, the first call that finds the input exhausted    *)
(* ends the loop, and so at most Len(source) + 1 calls are made, with or   *)
(* without diagnostics.  Termination is stated twice: under FairSpec the   *)
(* final state is reached (<>Done), and Variant is a natural number that   *)
(* every step decreases, a step being possible in every state but the      *)
(* final one.                                                              *)
(***************************************************************************)
Rank ==
    IF pc = "done" THEN 0
    ELSE IF pc = "returned" /\ ret = Ok(FALSE) THEN 1
    ELSE IF pc = "loop" THEN 2
    ELSE IF pc = "returned" THEN 3
    ELSE 4

Variant == 4 * (Len(source) - source_iter) + Rank

C1_Step ==
    /\ source_iter' >= source_iter
    /\ (calls' # calls /\ source_iter < Len(source)) => source_iter' > source_iter
    /\ (calls' # calls /\ source_iter >= Len(source)) => ret' = Ok(FALSE)
    /\ ret = Ok(FALSE) => pc' = "done"
    /\ Variant' < Variant

C1_State ==
    /\ source_iter \in 0..Len(source)
    /\ calls <= Len(source) + 1
    /\ Variant >= 0
    /\ Done \/ ENABLED Next

\* C1: every step moves the cursor forward or not at all and decreases Variant, at most
\* Len(source) + 1 calls of scan_token are made, and the pass reaches its final state.
C1_Terminates == [][C1_Step]_vars /\ []C1_State /\ <>Done

C1_Witness == Done /\ Len(source) >= 2 /\ Len(errors) >= 2 /\ calls = Len(source) + 1

(***************************************************************************)
(* C2: when scan_tokens has finished, the token list holds exactly one EOF *)
(* token, as its last element, on line 1 + the number of newlines of the   *)
(* whole input (those of string literals and those ending a comment        *)
(* included), whether or not diagnostics were recorded.                    *)
(***************************************************************************)
\* C2: in the final state the last token is the only EOF, on line 1 + the newlines of source.
C2_EofLast ==
    Done =>
        /\ Len(tokens) >= 1
        /\ Last(tokens) = [which |-> TT("EOF"), lexem |-> <<>>,
                           line |-> 1 + Count(source, "\n")]
        /\ Count(Tags(tokens), "EOF") = 1

C2_Witness ==
    /\ Done
    /\ errors # <<>>
    /\ \E i \in DOMAIN tokens :
           tokens[i].which.tag = "String" /\ Count(tokens[i].which.text, "\n") >= 1
    /\ Last(tokens).line >= 2

(***************************************************************************)
(* C3: a scan has exactly one of two outcomes.  It is Ok with the token    *)
(* list if and only if no call of scan_token returned an error; otherwise  *)
(* it is Err with a list that is not empty and holds every diagnostic a    *)
(* call returned, in the order returned, and no tokens.  errors is exactly *)
(* the list of the errors returned (C3_Step), and the result is decided by *)
(* it (C3_State).                                                          *)
(***************************************************************************)
C3_Step ==
    /\ (pc = "returned" /\ ret.kind = "Err") => errors' = Append(errors, ret.err)
    /\ errors' # errors => (pc = "returned" /\ ret.kind = "Err")
    /\ ret.kind = "Err" => pc = "returned"
    /\ result' # result => (result = NoResult /\ pc' = "done")

C3_State ==
    /\ ~Done => result = NoResult
    /\ Done =>
        /\ result.kind \in {"Ok", "Err"}
        /\ result.kind = "Ok" <=> errors = <<>>
        /\ result.kind = "Ok" => result.tokens = tokens /\ result.errors = <<>>
        /\ result.kind = "Err" =>
               result.errors = errors /\ errors # <<>> /\ result.tokens = <<>>

\* C3: errors is the list of the errors returned, in order; the result is Ok(tokens) iff
\* it is empty, and Err(errors) without tokens otherwise.
C3_Outcome == [][C3_Step]_vars /\ []C3_State

C3_Witness ==
    /\ Done
    /\ result.kind = "Err"
    /\ Len(result.errors) >= 2
    /\ result.errors[1] # result.errors[2]
    /\ Len(tokens) >= 2

(***************************************************************************)
(* C4: a lexical error never aborts the pass.  A character that no rule of *)
(* the dispatch takes records one diagnostic, "unexpected character 'c'",  *)
(* with the label "parsing" and the current line, emits no token, and the  *)
(* scan resumes with the next character; so the diagnostics labelled       *)
(* "parsing" of a finished pass are those of the unexpected characters of  *)
(* the input outside strings and comments, in source order, and the pass   *)
(* has read the whole input.  Expected and Unexpected are written from the *)
(* dispatch table, not from the scanner.                                   *)
(***************************************************************************)
Letters ==
    {"a", "b", "c", "d", "e", "f", "g", "h", "i", "j", "k", "l", "m", "n", "o", "p", "q",
     "r", "s", "t", "u", "v", "w", "x", "y", "z", "A", "B", "C", "D", "E", "F", "G", "H",
     "I", "J", "K", "L", "M", "N", "O", "P", "Q", "R", "S", "T", "U", "V", "W", "X", "Y",
     "Z"}

DigitChars == {"0", "1", "2", "3", "4", "5", "6", "7", "8", "9"}

Expected ==
    {"(", ")", "{", "}", ",", ".", "-", "+", ";", "*", "!", "=", "<", ">", "/", " ", "\t",
     "\r", "\n", "\""} \cup DigitChars \cup Letters \cup {"_"}

\* The least index after i of src that holds c, or Len(src) + 1.
NextIndex(src, i, c) ==
    IF \E j \in (i + 1)..Len(src) : src[j] = c
    THEN CHOOSE j \in (i + 1)..Len(src) :
             src[j] = c /\ \A k \in (i + 1)..(j - 1) : src[k] # c
    ELSE Len(src) + 1

UnexpectedAt(src, i) ==
    [line |-> 1 + Count(SubSeq(src, 1, i - 1), "\n"), context |-> "parsing",
     msg |-> "unexpected character '" \o src[i] \o "'"]

\* The diagnostics of the unexpected characters of src from index i on, i
\* being outside strings and comments.
RECURSIVE Unexpected(_, _)
Unexpected(src, i) ==
    IF i > Len(src) THEN <<>>
    ELSE IF src[i] = "\"" THEN Unexpected(src, NextIndex(src, i, "\"") + 1)
    ELSE IF src[i] = "/" /\ i < Len(src) /\ src[i + 1] = "/"
         THEN Unexpected(src, NextIndex(src, i, "\n"))
    ELSE IF src[i] \in Expected THEN Unexpected(src, i + 1)
    ELSE <<UnexpectedAt(src, i)>> \o Unexpected(src, i + 1)

IsParsing(e) == e.context = "parsing"

C4_Step ==
    /\ (pc = "loop" /\ source_iter < Len(source) /\ source[source_iter + 1] \notin Expected) =>
           /\ ret' = [kind |-> "Err", has_more |-> FALSE,
                      err |-> [line |-> line, context |-> "parsing",
                               msg |-> "unexpected character '"
                                           \o source[source_iter + 1] \o "'"]]
           /\ pc' = "returned"
           /\ source_iter' = source_iter + 1
           /\ tokens' = tokens
           /\ line' = line
    /\ (pc = "returned" /\ ret.kind = "Err") =>
           /\ errors' = Append(errors, ret.err)
           /\ pc' = "loop"
           /\ source_iter' = source_iter
           /\ tokens' = tokens

C4_State ==
    Done =>
        /\ SelectSeq(errors, IsParsing) = Unexpected(source, 1)
        /\ source_iter = Len(source)

\* C4: an unexpected character returns one "parsing" diagnostic and the loop goes on; the
\* "parsing" diagnostics of a finished pass are Unexpected(source, 1).
C4_ErrorsDoNotAbort == [][C4_Step]_vars /\ []C4_State

C4_Witness ==
    /\ Done
    /\ Len(SelectSeq(errors, IsParsing)) >= 2
    /\ errors[1].msg # errors[2].msg
    /\ errors[1].line # errors[2].line
    /\ Len(tokens) >= 2

(***************************************************************************)
(* C5: on '!', '=', '<' or '>' the scanner emits the two-character variant *)
(* as one token covering both characters when the next character is '=',   *)
(* that '=' being consumed with the operator, and the one-character        *)
(* variant otherwise; so "!=" yields BangEqual, EOF.                       *)
(***************************************************************************)
OperatorChars == {"!", "=", "<", ">"}

TwoCharName(c) ==
    CASE c = "!" -> "BangEqual" [] c = "=" -> "EqualEqual"
      [] c = "<" -> "LessEqual" [] c = ">" -> "GreaterEqual"

OneCharName(c) ==
    CASE c = "!" -> "Bang" [] c = "=" -> "Equal" [] c = "<" -> "Less" [] c = ">" -> "Greater"

C5_Step ==
    (pc = "loop" /\ source_iter < Len(source) /\ source[source_iter + 1] \in OperatorChars) =>
        LET c == source[source_iter + 1]
            two == source_iter + 1 < Len(source) /\ source[source_iter + 2] = "="
        IN  /\ tokens' = Append(tokens, [which |-> TT(IF two THEN TwoCharName(c)
                                                     ELSE OneCharName(c)),
                                         lexem |-> <<>>, line |-> line])
            /\ source_iter' = IF two THEN source_iter + 2 ELSE source_iter + 1

C5_State == (Done /\ source = <<"!", "=">>) => Tags(tokens) = <<"BangEqual", "EOF">>

\* C5: an operator character followed by '=' gives the two-character token and consumes
\* both characters; "!=" yields BangEqual, EOF.
C5_TwoCharOperators == [][C5_Step]_vars /\ []C5_State

(***************************************************************************)
(* C6: identifier recognition starts at a letter or an underscore and      *)
(* consumes the maximal run of letters, digits and underscores from there; *)
(* a run spelled exactly like one of the 16 keywords gives that keyword's  *)
(* token and never Identifier, any other run gives Identifier carrying     *)
(* exactly the run.                                                        *)
(***************************************************************************)
IdentChars == Letters \cup DigitChars \cup {"_"}

\* The index after the maximal run of IdentChars that starts at index i of src.
RECURSIVE RunEnd(_, _)
RunEnd(src, i) == IF i <= Len(src) /\ src[i] \in IdentChars THEN RunEnd(src, i + 1) ELSE i

C6_Step ==
    /\ (pc = "loop" /\ pc' = "scan_identifier") =>
           source[source_iter + 1] \in Letters \cup {"_"} /\ start' = source_iter
    /\ (pc = "scan_identifier" /\ pc' # "scan_identifier") =>
           LET end == RunEnd(source, start + 1)
               run == SubSeq(source, start + 1, end - 1)
           IN  /\ source_iter = end - 1
               /\ source_iter' = source_iter
               /\ tokens' = Append(tokens,
                      [which |-> IF run \in DOMAIN KEYWORDS THEN KEYWORDS[run]
                                 ELSE [tag |-> "Identifier", text |-> run, num |-> 0,
                                       den |-> 1],
                       lexem |-> <<>>, line |-> line])
    /\ (pc = "scan_identifier" /\ pc' = "scan_identifier") => tokens' = tokens

C6_State ==
    /\ Cardinality(DOMAIN KEYWORDS) = 16
    /\ Cardinality({KEYWORDS[k].tag : k \in DOMAIN KEYWORDS}) = 16
    /\ \A i \in DOMAIN tokens :
           /\ tokens[i].which.tag = "Identifier" => tokens[i].which.text \notin DOMAIN KEYWORDS
           /\ tokens[i].which.tag = "Identifier" =>
                  \A j \in DOMAIN tokens[i].which.text : tokens[i].which.text[j] \in IdentChars

\* C6: leaving scan_identifier appends the keyword token of the maximal run from start,
\* or Identifier carrying that run when it is no keyword.
C6_Identifiers == [][C6_Step]_vars /\ []C6_State

C6_Witness ==
    /\ Done
    /\ \E i \in DOMAIN tokens : \E k \in DOMAIN KEYWORDS :
           /\ tokens[i].which.tag = "Identifier"
           /\ Len(tokens[i].which.text) > Len(k)
           /\ SubSeq(tokens[i].which.text, 1, Len(k)) = k
           /\ Last(tokens[i].which.text) \in DigitChars
    /\ Tags(tokens) = <<"Class", "Identifier", "Identifier", "Identifier", "EOF">>

(***************************************************************************)
(* C7: for a string literal whose closing quote exists, string recognition *)
(* emits exactly one String token, whose payload is the text strictly      *)
(* between the opening quote and the first quote after it (newlines        *)
(* included), and every newline inside the literal adds one to the line    *)
(* counter.  start is the index of the opening quote.                      *)
(***************************************************************************)
HasClosing(src, st) == NextIndex(src, st + 1, "\"") <= Len(src)

C7_Step ==
    pc = "scan_string" =>
        LET close == NextIndex(source, start + 1, "\"") IN
        /\ source_iter < Len(source) =>
               line' = IF source[source_iter + 1] = "\n" THEN line + 1 ELSE line
        /\ (HasClosing(source, start) /\ source_iter + 1 < close) =>
               /\ pc' = "scan_string"
               /\ tokens' = tokens
               /\ source_iter' = source_iter + 1
        /\ (HasClosing(source, start) /\ source_iter + 1 = close) =>
               /\ pc' = "returned"
               /\ ret' = Ok(TRUE)
               /\ source_iter' = close
               /\ tokens' = Append(tokens,
                      [which |-> [tag |-> "String",
                                  text |-> SubSeq(source, start + 2, close - 1),
                                  num |-> 0, den |-> 1],
                       lexem |-> <<>>, line |-> line'])

C7_State ==
    (pc = "scan_string" /\ HasClosing(source, start)) =>
        /\ source_iter < NextIndex(source, start + 1, "\"")
        /\ line = 1 + Count(SubSeq(source, 1, source_iter), "\n")

\* C7: scan_string stops at the first closing quote, appends one String token with the
\* text between the quotes, and adds one to line for every newline it reads.
C7_Strings == [][C7_Step]_vars /\ []C7_State

C7_Witness ==
    /\ pc = "returned"
    /\ tokens # <<>>
    /\ Last(tokens).which.tag = "String"
    /\ Len(Last(tokens).which.text) >= 2
    /\ Count(Last(tokens).which.text, "\n") >= 1
    /\ Last(tokens).line = 2

(***************************************************************************)
(* C8: when the input is exhausted before a closing quote, string          *)
(* recognition emits no token and records "unterminated string" with the   *)
(* label "when reading a string", and the scan result is a diagnostic      *)
(* list.  C8_OpeningLine states the line as the specification does: the    *)
(* line of the opening quote.  C8_Unterminated states the line the code    *)
(* gives: the line counter at the end of the input, which is the line of   *)
(* the opening quote plus the number of newlines of the unterminated text. *)
(***************************************************************************)
IsUnterminated(r) == r.kind = "Err" /\ r.err.msg = "unterminated string"

OpeningLine(src, st) == 1 + Count(SubSeq(src, 1, st), "\n")

\* C8, as the specification states it: the diagnostic of an unterminated string is on the
\* line of its opening quote.
C8_OpeningLine ==
    (pc = "returned" /\ IsUnterminated(ret)) =>
        ret.err = [line |-> OpeningLine(source, start), context |-> "when reading a string",
                   msg |-> "unterminated string"]

C8_Step ==
    /\ (pc = "scan_string" /\ ~HasClosing(source, start) /\ pc' = "returned") =>
           /\ source_iter = Len(source)
           /\ IsUnterminated(ret')
           /\ tokens' = tokens
    /\ (pc = "scan_string" /\ ~HasClosing(source, start)) => tokens' = tokens
    /\ IsUnterminated(ret') => ~HasClosing(source, start)

C8_State ==
    /\ (pc = "returned" /\ IsUnterminated(ret)) =>
           /\ source[start + 1] = "\""
           /\ ret.err = [line |-> OpeningLine(source, start)
                                      + Count(SubSeq(source, start + 2, Len(source)), "\n"),
                         context |-> "when reading a string",
                         msg |-> "unterminated string"]
           /\ ret.err.line = line
    /\ (Done /\ \E i \in DOMAIN errors : errors[i].msg = "unterminated string") =>
           result.kind = "Err" /\ result.tokens = <<>>

\* C8, amended: the diagnostic of an unterminated string is on the line of its opening
\* quote plus the newlines of the unterminated text; no token is emitted, the result is Err.
C8_Unterminated == [][C8_Step]_vars /\ []C8_State

C8_Witness ==
    /\ pc = "returned"
    /\ IsUnterminated(ret)
    /\ OpeningLine(source, start) = 1
    /\ ret.err.line = 3

(***************************************************************************)
(* C9: in number recognition a '.' is consumed only if the character right *)
(* after it is a digit; otherwise the '.' is left unconsumed, the Number   *)
(* token is emitted with the digits read so far, and the '.' is scanned as *)
(* the next token: "423298." yields Number(423298), Dot, EOF.              *)
(***************************************************************************)
DigitValue(c) == CHOOSE v \in 0..9 : <<"0", "1", "2", "3", "4", "5", "6", "7", "8", "9">>[v + 1] = c

RECURSIVE Pow10(_)
Pow10(k) == IF k = 0 THEN 1 ELSE 10 * Pow10(k - 1)

IsDigitChar(c) == c \in DigitChars

\* The digits of a literal, and the number of them after its '.'.
DigitsOf(text) == SelectSeq(text, IsDigitChar)

FractionLen(text) ==
    IF \E i \in DOMAIN text : text[i] = "."
    THEN Len(text) - (CHOOSE i \in DOMAIN text : text[i] = ".")
    ELSE 0

RECURSIVE PositionalSum(_, _)
PositionalSum(ds, i) ==
    IF i > Len(ds) THEN 0
    ELSE DigitValue(ds[i]) * Pow10(Len(ds) - i) + PositionalSum(ds, i + 1)

\* Whether the payload of the Number token which is the decimal value of text.
HasValue(which, text) ==
    /\ which.tag = "Number"
    /\ which.den >= 1
    /\ which.num * Pow10(FractionLen(text)) = PositionalSum(DigitsOf(text), 1) * which.den

C9_Step ==
    /\ (pc = "scan_number" /\ source_iter < Len(source) /\ source[source_iter + 1] = ".") =>
           IF source_iter + 1 < Len(source) /\ source[source_iter + 2] \in DigitChars
           THEN /\ source_iter' = source_iter + 1
                /\ tokens' = tokens
           ELSE /\ source_iter' = source_iter
                /\ pc' = "returned"
                /\ ret' = Ok(TRUE)
                /\ Len(tokens') = Len(tokens) + 1
                /\ SubSeq(tokens', 1, Len(tokens)) = tokens
                /\ HasValue(Last(tokens').which, SubSeq(source, start + 1, source_iter))
                /\ Last(tokens').line = line
    /\ (/\ pc = "loop"
        /\ tokens # <<>>
        /\ Last(tokens).which.tag = "Number"
        /\ source_iter >= 1
        /\ source_iter < Len(source)
        /\ source[source_iter] \in DigitChars
        /\ source[source_iter + 1] = ".") =>
           /\ tokens' = Append(tokens, [which |-> TT("Dot"), lexem |-> <<>>, line |-> line])
           /\ source_iter' = source_iter + 1

C9_State ==
    (Done /\ source = <<"4", "2", "3", "2", "9", "8", ".">>) =>
        /\ Tags(tokens) = <<"Number", "Dot", "EOF">>
        /\ tokens[1].which = [tag |-> "Number", text |-> <<>>, num |-> 423298, den |-> 1]
        /\ result.kind = "Ok"

\* C9: scan_number consumes a '.' only when a digit follows it; otherwise it emits the
\* Number read so far and the '.' becomes the next token, Dot.
C9_NumberDot == [][C9_Step]_vars /\ []C9_State

C9_Witness ==
    /\ Done
    /\ Tags(tokens) = <<"Number", "Dot", "EOF">>
    /\ tokens[1].which.den = 10
    /\ errors = <<>>

(***************************************************************************)
(* C10: a second '.' met in number recognition when one '.' of the literal *)
(* is already consumed records "unexpected dot", with the label "when      *)
(* parsing a number" and the current line, and the pass still runs to the  *)
(* end of the input and appends EOF.  C10_SecondDot states it for every    *)
(* second '.'; C10_SecondDotDigit for the second '.' that a digit follows, *)
(* the other one being left unconsumed to end the number.                  *)
(***************************************************************************)
InFraction == \E i \in (start + 1)..source_iter : source[i] = "."

UnexpectedDot(ln) ==
    [kind |-> "Err", has_more |-> FALSE,
     err |-> [line |-> ln, context |-> "when parsing a number", msg |-> "unexpected dot"]]

AtSecondDot ==
    /\ pc = "scan_number"
    /\ InFraction
    /\ source_iter < Len(source)
    /\ source[source_iter + 1] = "."

DigitFollows == source_iter + 1 < Len(source) /\ source[source_iter + 2] \in DigitChars

C10_SecondDotStep == AtSecondDot => (ret' = UnexpectedDot(line) /\ pc' = "returned")

\* C10, as the specification states it: every second '.' of a literal returns the
\* diagnostic "unexpected dot".
C10_SecondDot == [][C10_SecondDotStep]_vars

C10_Step ==
    /\ (AtSecondDot /\ DigitFollows) =>
           /\ ret' = UnexpectedDot(line)
           /\ pc' = "returned"
           /\ tokens' = tokens
           /\ source_iter' = source_iter + 1
    /\ (AtSecondDot /\ ~DigitFollows) =>
           /\ ret' = Ok(TRUE)
           /\ pc' = "returned"
           /\ source_iter' = source_iter
           /\ Len(tokens') = Len(tokens) + 1
           /\ Last(tokens').which.tag = "Number"
    /\ (ret'.err.msg = "unexpected dot" /\ ret' # ret) => (AtSecondDot /\ DigitFollows)

C10_State ==
    Done =>
        /\ source_iter = Len(source)
        /\ Last(tokens).which = TT("EOF")
        /\ (\E i \in DOMAIN errors : errors[i].msg = "unexpected dot") => result.kind = "Err"

\* C10, amended: a second '.' that a digit follows returns "unexpected dot" at the current
\* line and the pass still ends with EOF; a second '.' that no digit follows ends the number.
C10_SecondDotDigit == [][C10_Step]_vars /\ []C10_State

C10_Witness ==
    /\ Done
    /\ \E i \in DOMAIN errors : errors[i] = UnexpectedDot(1).err
    /\ Tags(tokens) = <<"Number", "EOF">>

(***************************************************************************)
(* C11: a '/' that a second '/' follows starts a comment: the characters   *)
(* up to, and not including, the next newline or the end of the input are  *)
(* consumed and no token is emitted; a '/' that no '/' follows emits       *)
(* Slash.  So an input made of spaces, tabs, carriage returns, newlines    *)
(* and comments only yields the one token EOF, and the tokens around a     *)
(* comment keep their source order.                                        *)
(***************************************************************************)
BlankChars == {" ", "\t", "\r", "\n"}

\* Whether src from index i on is made of blanks and comments only.
RECURSIVE OnlyBlank(_, _)
OnlyBlank(src, i) ==
    IF i > Len(src) THEN TRUE
    ELSE IF src[i] \in BlankChars THEN OnlyBlank(src, i + 1)
    ELSE IF src[i] = "/" /\ i < Len(src) /\ src[i + 1] = "/"
         THEN OnlyBlank(src, NextIndex(src, i, "\n"))
    ELSE FALSE

C11_Step ==
    /\ (pc = "loop" /\ source_iter < Len(source) /\ source[source_iter + 1] = "/") =>
           IF source_iter + 1 < Len(source) /\ source[source_iter + 2] = "/"
           THEN /\ pc' = "comment"
                /\ tokens' = tokens
                /\ start' = source_iter
           ELSE /\ pc' = "returned"
                /\ tokens' = Append(tokens, [which |-> TT("Slash"), lexem |-> <<>>,
                                             line |-> line])
                /\ source_iter' = source_iter + 1
    /\ pc = "comment" =>
           /\ tokens' = tokens
           /\ line' = line
           /\ errors' = errors
           /\ source_iter < NextIndex(source, start + 1, "\n") - 1 =>
                  pc' = "comment" /\ source_iter' = source_iter + 1
           /\ source_iter = NextIndex(source, start + 1, "\n") - 1 =>
                  pc' = "returned" /\ ret' = Ok(TRUE) /\ source_iter' = source_iter

C11_State ==
    /\ pc = "comment" => source_iter < NextIndex(source, start + 1, "\n")
    /\ (Done /\ OnlyBlank(source, 1)) =>
           /\ tokens = <<[which |-> TT("EOF"), lexem |-> <<>>,
                          line |-> 1 + Count(source, "\n")]>>
           /\ result.kind = "Ok"
    /\ (Done /\ source = Test_multines) =>
           Tags(tokens) = <<"LeftBrace", "RightBrace", "Slash", "Semi", "Star", "EOF">>

\* C11: "//" opens a comment that is consumed up to the newline or the end of the input
\* and emits nothing, any other '/' emits Slash; blanks and comments alone yield EOF only.
C11_Comments == [][C11_Step]_vars /\ []C11_State

C11_Witness ==
    /\ Done
    /\ source = Sample_blank
    /\ Len(tokens) = 1
    /\ Last(tokens).line = 3

(***************************************************************************)
(* C12: in every reachable state a token that is not EOF has a line from 1 *)
(* to 1 + the number of newlines consumed so far; the line counter starts  *)
(* at 1 and changes only by +1, in the step that consumes a newline (at    *)
(* top level or inside a string literal), never on another character.      *)
(***************************************************************************)
Consumed == SubSeq(source, 1, source_iter)

C12_Step ==
    /\ line' \in {line, line + 1}
    /\ line' = line + 1 <=>
           (source_iter' = source_iter + 1 /\ source[source_iter + 1] = "\n")
    /\ source_iter' \in {source_iter, source_iter + 1}

C12_State ==
    /\ line = 1 + Count(Consumed, "\n")
    /\ source_iter = 0 => line = 1
    /\ \A i \in DOMAIN tokens :
           tokens[i].which.tag # "EOF" =>
               (tokens[i].line >= 1 /\ tokens[i].line <= 1 + Count(Consumed, "\n"))

\* C12: line is 1 + the newlines consumed, it grows by one exactly in the steps that
\* consume a newline, and the line of every token but EOF lies between 1 and line.
C12_Lines == [][C12_Step]_vars /\ []C12_State

C12_Witness ==
    /\ ~Done
    /\ Len(tokens) = 1
    /\ tokens[1].which.tag = "String"
    /\ tokens[1].line = 2
    /\ line = 3

(***************************************************************************)
(* C13: every token carries in its lexeme field the substring of the       *)
(* source it was recognized from, from token_start to the cursor.          *)
(* add_token passes the empty text to Token::new for every token, so the   *)
(* statement fails at the first token of a lexeme that is not empty.       *)
(***************************************************************************)
C13_Step ==
    (tokens' # tokens /\ pc' # "done") =>
        Last(tokens').lexem = SubSeq(source, start + 1, source_iter')

\* C13: the lexem of every token that scan_token emits is the source text between
\* start and the cursor.
C13_Lexeme == [][C13_Step]_vars

(***************************************************************************)
(* C14: the value of the Number token of a literal d1..dm, optionally      *)
(* followed by '.' f1..fn, is the decimal value of those digits: each      *)
(* digit of the integer part multiplies the accumulator by ten and adds    *)
(* itself, and the j-th digit of the fraction adds fj / 10^j.  The value   *)
(* is the exact decimal num/den, as in the statement.                      *)
(***************************************************************************)
\* The literal read so far by scan_number.
Literal == SubSeq(source, start + 1, source_iter)

\* Whether the decimal n is the value of the digits of text.
IsValue(n, text) ==
    /\ n.den >= 1
    /\ n.num * Pow10(FractionLen(text)) = PositionalSum(DigitsOf(text), 1) * n.den

\* Whether the decimals a and b differ by d / w.
DiffersBy(a, b, d, w) == (a.num * b.den - b.num * a.den) * w = d * a.den * b.den

C14_Step ==
    /\ (pc = "scan_number" /\ pc' = "scan_number" /\ source[source_iter + 1] \in DigitChars) =>
           IF fractional_power_of_ten = 0
           THEN /\ number'.num * number.den =
                       (10 * number.num + DigitValue(source[source_iter + 1]) * number.den)
                           * number'.den
                /\ fractional_power_of_ten' = 0
           ELSE /\ DiffersBy(number', number, DigitValue(source[source_iter + 1]),
                             Pow10(FractionLen(Literal) + 1))
                /\ fractional_power_of_ten' = 10 * fractional_power_of_ten
    /\ (pc = "scan_number" /\ pc' = "returned" /\ ret'.kind = "Ok") =>
           /\ tokens' = Append(tokens, [which |-> [tag |-> "Number", text |-> <<>>,
                                                   num |-> number.num, den |-> number.den],
                                        lexem |-> <<>>, line |-> line])
           /\ IsValue(number, Literal)
           /\ source_iter' = source_iter
           /\ Literal[Len(Literal)] \in DigitChars

C14_State ==
    /\ pc = "scan_number" =>
           /\ IsValue(number, Literal)
           /\ Literal[1] \in DigitChars
           /\ fractional_power_of_ten # 0 <=> (\E i \in DOMAIN Literal : Literal[i] = ".")
           /\ fractional_power_of_ten # 0 =>
                  fractional_power_of_ten = Pow10(FractionLen(Literal) + 1)
    /\ (Done /\ source \in {Test_number_int, Test_number_frac}) =>
           /\ Tags(tokens) = <<"Number", "EOF">>
           /\ tokens[1].which.num = 423298
           /\ tokens[1].which.den = 1
    /\ (Done /\ source = Test_number_spaces) =>
           /\ Tags(tokens) = <<"Number", "EOF">>
           /\ tokens[1].which.num = 1234
           /\ tokens[1].which.den = 100

\* C14: the Number token carries the decimal value of the digits of its literal, built
\* by multiply-by-ten-and-add before the '.' and by adding fj / 10^j after it.
C14_NumberValue == [][C14_Step]_vars /\ []C14_State

C14_Witness ==
    /\ Done
    /\ source = Test_number_spaces
    /\ tokens[1].which.num = 1234
    /\ tokens[1].which.den = 100
    /\ errors = <<>>

(***************************************************************************)
(* C15: a diagnostic with line L, context C and message M renders as the   *)
(* text "[L] Error C: M" and nothing more.  Display for OwnError uses      *)
(* writeln!, so the rendering of every diagnostic ends with a newline and  *)
(* the statement fails at the first diagnostic recorded.                   *)
(***************************************************************************)
\* The text of the statement.
Rendering(L, C, M) == "[" \o ToString(L) \o "] Error " \o C \o ": " \o M

\* C15: every recorded diagnostic renders as "[L] Error C: M" with nothing after it.
C15_Rendering ==
    \A i \in DOMAIN errors :
        OwnError_fmt(errors[i]) = Rendering(errors[i].line, errors[i].context, errors[i].msg)

(***************************************************************************)
(* C16: the token list is append-only: a step leaves it unchanged or       *)
(* appends one token at its end, and the tokens are in the order of the    *)
(* source positions they were recognized at.  A token is appended by the   *)
(* step that ends a call of scan_token, start is set once per call, to the *)
(* position of the character the call reads first, and every call sets it  *)
(* further right than the call before; EOF is appended after the last call.*)
(***************************************************************************)
IsPrefix(s, t) == Len(s) <= Len(t) /\ SubSeq(t, 1, Len(s)) = s

C16_Step ==
    /\ IsPrefix(tokens, tokens')
    /\ Len(tokens') <= Len(tokens) + 1
    /\ tokens' # tokens =>
           \/ pc \in {"loop", "scan_string", "scan_number", "scan_identifier"}
                  /\ pc' = "returned"
                  /\ Last(tokens').which.tag # "EOF"
           \/ pc = "returned" /\ pc' = "done" /\ Last(tokens').which.tag = "EOF"
    /\ start' # start => (pc = "loop" /\ calls' = calls + 1)
    /\ (calls' = calls + 1 /\ source_iter < Len(source)) =>
           /\ start' = source_iter
           /\ calls >= 1 => start' > start
    /\ calls' \in {calls, calls + 1}
    /\ calls' = calls + 1 <=> pc = "loop"

C16_State ==
    /\ Len(tokens) <= calls
    /\ start <= source_iter
    /\ (pc = "loop" /\ calls >= 1) => start < source_iter
    /\ \A i \in DOMAIN tokens : tokens[i].which.tag = "EOF" => (i = Len(tokens) /\ Done)

\* C16: every step leaves the token list unchanged or appends one token at its end, at
\* most one per call of scan_token, and the calls start at increasing source positions.
C16_AppendOnly == [][C16_Step]_vars /\ []C16_State

C16_Witness ==
    /\ Done
    /\ Len(tokens) >= 4
    /\ calls >= 5
    /\ errors = <<>>

(***************************************************************************)
(* C17: a call of scan_token that records a diagnostic appends no token:   *)
(* the list changes only in a step that returns Ok, and a call returns     *)
(* once.  The number rejected for a second '.' is not emitted, the '.' is  *)
(* consumed and the next call starts at the digit after it.                *)
(***************************************************************************)
Pending == IF pc = "returned" /\ ret.kind = "Err" THEN 1 ELSE 0

C17_Step ==
    /\ ret'.kind = "Err" => tokens' = tokens
    /\ errors' # errors => tokens' = tokens
    /\ (tokens' # tokens /\ pc' # "done") => (pc' = "returned" /\ ret'.kind = "Ok")
    /\ (pc = "loop" /\ ret'.kind = "Err") =>
           /\ ret'.err.msg = "unexpected character '" \o source[source_iter + 1] \o "'"
           /\ source_iter' = source_iter + 1
    /\ (pc = "scan_string" /\ ret'.kind = "Err") =>
           /\ ret'.err.msg = "unterminated string"
           /\ source_iter = Len(source)
    /\ (pc = "scan_number" /\ ret'.kind = "Err") =>
           /\ ret'.err.msg = "unexpected dot"
           /\ source[source_iter + 1] = "."
           /\ source_iter' = source_iter + 1
           /\ source[source_iter' + 1] \in DigitChars
           /\ number' = NoNumber
    /\ ret'.kind = "Err" => pc \in {"loop", "scan_string", "scan_number"}

C17_State ==
    /\ Len(tokens) + Len(errors) + Pending <= calls
    /\ (Done /\ source = Sample_two_dots) =>
           /\ tokens = <<[which |-> [tag |-> "Number", text |-> <<>>, num |-> 3, den |-> 1],
                          lexem |-> <<>>, line |-> 1],
                         [which |-> TT("EOF"), lexem |-> <<>>, line |-> 1]>>
           /\ errors = <<[line |-> 1, context |-> "when parsing a number",
                          msg |-> "unexpected dot"]>>
           /\ result = [kind |-> "Err", tokens |-> <<>>, errors |-> errors]

\* C17: a call of scan_token that records a diagnostic (unexpected character, unterminated
\* string, second '.' of a number) appends no token; "1.2.3" leaves Number(3) and EOF.
C17_NoTokenOnError == [][C17_Step]_vars /\ []C17_State

C17_Witness ==
    /\ Done
    /\ source = Sample_two_dots
    /\ Len(tokens) = 2
    /\ tokens[1].which.num = 3
    /\ Len(errors) = 1

(***************************************************************************)
(* C18: the lines of the tokens are non-decreasing from the first to the   *)
(* last, EOF included: line never goes down and every token is stamped     *)
(* with line as it is when the token is appended.                          *)
(***************************************************************************)
C18_Step ==
    /\ line' >= line
    /\ tokens' # tokens => Last(tokens').line = line'

C18_State ==
    /\ \A i, j \in DOMAIN tokens : i < j => tokens[i].line <= tokens[j].line
    /\ \A i \in DOMAIN tokens : tokens[i].line <= line
    /\ Done => Last(tokens).line = line

\* C18: the lines of the tokens never decrease along the list, EOF included, and no
\* token has a line beyond the line counter, which never goes down.
C18_LinesOrdered == [][C18_Step]_vars /\ []C18_State

C18_Witness ==
    /\ Done
    /\ Len(tokens) >= 3
    /\ tokens[1].line = 1
    /\ tokens[2].line = 2
    /\ Last(tokens).line = 3

(***************************************************************************)
(* C19: a String token whose literal spans several lines is stamped with   *)
(* the line of its closing quote: the line of the opening quote plus the   *)
(* number of newlines between the quotes.                                  *)
(***************************************************************************)
C19_Step ==
    (pc = "scan_string" /\ tokens' # tokens) =>
        LET t == Last(tokens') IN
        /\ t.which.tag = "String"
        /\ source[start + 1] = "\""
        /\ source[source_iter'] = "\""
        /\ t.which.text = SubSeq(source, start + 2, source_iter' - 1)
        /\ t.line = OpeningLine(source, start) + Count(t.which.text, "\n")
        /\ t.line = 1 + Count(SubSeq(source, 1, source_iter'), "\n")
        /\ Count(t.which.text, "\n") >= 1 => t.line > OpeningLine(source, start)

\* C19: the line of a String token is the line of its opening quote plus the number of
\* newlines between its quotes, which is the line of its closing quote.
C19_StringLine == [][C19_Step]_vars

C19_Witness ==
    /\ pc = "returned"
    /\ tokens # <<>>
    /\ Last(tokens).which.tag = "String"
    /\ Last(tokens).which.text = <<"\n", "\n">>
    /\ Last(tokens).line = 3

====
